---- MODULE Spec2Model ----
(***************************************************************************)
(* Face-ID-Attendance: the embedding cache (services/embedding_cache.py)   *)
(* and the recognition service (services/face_recognition_service.py).     *)
(*                                                                         *)
(* Floats are fixed-point integers in units of 1/Scale, with two special   *)
(* values Inf and NaN.  A numpy array is a record [shape, data].  A dict   *)
(* is the sequence of its entries in insertion order, a deleted entry      *)
(* leaving a DUMMY slot behind as in CPython.                              *)
(***************************************************************************)
EXTENDS Integers, Sequences, FiniteSets, TLC

VARIABLES
    cache,                  \* EmbeddingCache.cache: the dict's entry slots
    metadata,               \* EmbeddingCache.metadata: student_id -> writer's metadata
    distance_metric,        \* EmbeddingCache.distance_metric
    npy_files,              \* <student_id>.npy under EMBEDDINGS_FOLDER
    json_files,             \* <student_id>.json under EMBEDDINGS_FOLDER
    frames,                 \* per thread: the running EmbeddingCache call
    query,                  \* find_best_match: query_embedding
    threshold,              \* find_best_match: threshold argument (<<>> is None)
    match,                  \* find_best_match: the returned tuple
    fps_limit,              \* FaceRecognitionService.fps_limit
    last_recognition_time,  \* FaceRecognitionService.last_recognition_time
    now,                    \* time.time()
    limiter,                \* per thread: position in _apply_rate_limit
    acquired,               \* instants at which _apply_rate_limit calls completed
    results_file,           \* session_id -> content of results.json
    savers,                 \* per thread: position in _save_session_results
    call,                   \* the running recognize_faces call
    returned                \* what recognize_faces returned

vars == <<cache, metadata, distance_metric, npy_files, json_files, frames,
          query, threshold, match, fps_limit, last_recognition_time, now,
          limiter, acquired, results_file, savers, call, returned>>

cacheVars == <<cache, metadata, distance_metric, npy_files, json_files, frames>>
matchVars == <<query, threshold, match>>
rateVars == <<fps_limit, last_recognition_time, now, limiter, acquired>>
ledgerVars == <<results_file, savers>>
recogVars == <<call, returned>>

-----------------------------------------------------------------------------
(* Bounds of the model *)

MaxCache == 2
MaxSaves == 2
MaxAcquires == 2
MaxTicks == 3
MaxCalls == 2
MaxFaces == 2
MaxRecognitions == 2
MaxBatch == 2

-----------------------------------------------------------------------------
(* Floats *)

Scale == 100
Inf == 1000000
NaN == -1000000
NegInf == 0 - Inf

IsNumber(x) == x # NaN /\ x # Inf /\ x # NegInf

FLt(a, b) == a # NaN /\ b # NaN /\ a < b
FLe(a, b) == a # NaN /\ b # NaN /\ a <= b

FSub(a, b) ==
    IF a = NaN \/ b = NaN THEN NaN
    ELSE IF b = Inf THEN (IF a = Inf THEN NaN ELSE NegInf)
    ELSE IF b = NegInf THEN (IF a = NegInf THEN NaN ELSE Inf)
    ELSE IF a = Inf \/ a = NegInf THEN a
    ELSE a - b

FMul(a, b) == (a * b) \div Scale

FDiv(a, b) ==
    IF a = NaN \/ b = NaN THEN NaN
    ELSE IF b = 0 THEN (IF a = 0 THEN NaN ELSE IF a > 0 THEN Inf ELSE NegInf)
    ELSE (a * Scale) \div b

\* floor of the square root, by bisection: lo * lo <= n < hi * hi
SqrtBetween[n \in Nat, lo \in Nat, hi \in Nat] ==
    IF hi - lo <= 1 THEN lo
    ELSE LET mid == (lo + hi) \div 2
         IN  IF mid * mid <= n THEN SqrtBetween[n, mid, hi] ELSE SqrtBetween[n, lo, mid]

ISqrt(n) == SqrtBetween[n, 0, IF n < 46340 THEN n + 1 ELSE 46340]

-----------------------------------------------------------------------------
(* numpy arrays *)

EMBEDDING_DIM == 2

Array(data) == [shape |-> <<Len(data)>>, data |-> data]

RECURSIVE SumTo(_, _)
SumTo(f, n) == IF n = 0 THEN 0 ELSE f[n] + SumTo(f, n - 1)

Dot(a, b) == SumTo([i \in 1..Len(a.data) |-> a.data[i] * b.data[i]], Len(a.data))

\* np.linalg.norm of a - b, for a and b of one shape
NormDiff(a, b) ==
    ISqrt(Scale * Scale *
          SumTo([i \in 1..Len(a.data) |-> (a.data[i] - b.data[i]) * (a.data[i] - b.data[i])],
                Len(a.data)))

Norm(a) == ISqrt(Scale * Scale * Dot(a, a))

\* the one element of a singleton: The({e(x) : x \in {v}}) is e(v), with v
\* computed once
The(S) == CHOOSE x \in S : TRUE

-----------------------------------------------------------------------------
(* EmbeddingCache.compare_embeddings *)

Metrics == {"cosine", "euclidean", "euclidean_l2"}

\* mutant: a metric that is not known is taken for cosine
compare_embeddings_DefaultCosine(metric, embedding1, embedding2) ==
    IF embedding1.shape # embedding2.shape
    THEN Inf
    ELSE IF metric = "euclidean"
    THEN NormDiff(embedding1, embedding2)
    ELSE IF metric = "euclidean_l2"
    THEN NormDiff(embedding1, embedding2) \div Len(embedding1.data)
    ELSE FSub(Scale, FDiv(Scale * Dot(embedding1, embedding2),
                          FMul(Norm(embedding1), Norm(embedding2))))

compare_embeddings(metric, embedding1, embedding2) ==
    IF metric \in Metrics /\ embedding1.shape # embedding2.shape
    THEN Inf                                   \* numpy raises; except: return inf
    ELSE IF metric = "cosine"
    THEN The({FSub(Scale, cosine_similarity) :
                 cosine_similarity \in
                    {FDiv(dot_product, FMul(norm1, norm2)) :
                        dot_product \in {Scale * Dot(embedding1, embedding2)},
                        norm1 \in {Norm(embedding1)},
                        norm2 \in {Norm(embedding2)}}})
    ELSE IF metric = "euclidean"
    THEN NormDiff(embedding1, embedding2)
    ELSE IF metric = "euclidean_l2"
    THEN NormDiff(embedding1, embedding2) \div Len(embedding1.data)
    ELSE Inf

-----------------------------------------------------------------------------
(* A Python dict: entry slots in insertion order.  del leaves a DUMMY slot, *)
(* assignment to a present key keeps its slot, a new key takes a new slot,  *)
(* clear() starts over with no slots.                                       *)

None == "None"
DummyKey == "<dummy>"
DUMMY == [key |-> DummyKey, value |-> Array(<<>>)]

Live(d) == SelectSeq(d, LAMBDA s : s.key # DummyKey)
Used(d) == Len(Live(d))
Keys(d) == {d[i].key : i \in {j \in 1..Len(d) : d[j].key # DummyKey}}
Has(d, k) == k \in Keys(d)
SlotOf(d, k) == CHOOSE i \in 1..Len(d) : d[i].key = k
Get(d, k) == d[SlotOf(d, k)].value
Put(d, k, v) ==
    IF Has(d, k) THEN [d EXCEPT ![SlotOf(d, k)].value = v]
    ELSE Append(d, [key |-> k, value |-> v])
Del(d, k) == [d EXCEPT ![SlotOf(d, k)] = DUMMY]

-----------------------------------------------------------------------------
(* EmbeddingCache.find_best_match *)

CONFIDENCE_THRESHOLD == 60

\* threshold argument: <<>> is None, <<t>> is the float t
EffectiveThreshold(th) == IF th = <<>> THEN CONFIDENCE_THRESHOLD ELSE th[1]

\* mutant: the empty cache reported at distance 0
EmptyCacheResult_ZeroDistance == <<None, 0, 0>>

EmptyCacheResult == <<None, Inf, 0>>

ErrorResult == <<None, Inf, 0>>

InitialBest == [student_id |-> None, distance |-> Inf]

\* mutant: a later entry at the same distance replaces the best
IsCloser_OrEqual(distance, best_distance) == FLe(distance, best_distance)

IsCloser(distance, best_distance) == FLt(distance, best_distance)

\* the body of the for loop, for one item of the dict
ScanStep(metric, q, best, slot) ==
    The({IF IsCloser(distance, best.distance)
         THEN [student_id |-> slot.key, distance |-> distance]
         ELSE best :
            distance \in {compare_embeddings(metric, q, slot.value)}})

RECURSIVE ScanFrom(_, _, _, _, _)
ScanFrom(metric, q, best, items, i) ==
    IF i > Len(items) THEN best
    ELSE ScanFrom(metric, q, ScanStep(metric, q, best, items[i]), items, i + 1)

\* mutant: a distance equal to the threshold is rejected
WithinThreshold_Strict(best_distance, th) == FLt(best_distance, th)

WithinThreshold(best_distance, th) == FLe(best_distance, th)

\* mutant: a rejection reports +infinity, as the docstring has it
Decide_RejectInf(best, th) ==
    IF WithinThreshold(best.distance, th)
    THEN <<best.student_id, best.distance, FSub(Scale, best.distance)>>
    ELSE <<None, Inf, 0>>

Decide(best, th) ==
    IF WithinThreshold(best.distance, th)
    THEN <<best.student_id, best.distance, FSub(Scale, best.distance)>>
    ELSE <<None, best.distance, 0>>

\* the whole call, nothing else running
find_best_match(d, metric, q, th) ==
    IF Used(d) = 0 THEN EmptyCacheResult
    ELSE The({Decide(best, EffectiveThreshold(th)) :
                 best \in {ScanFrom(metric, q, InitialBest, Live(d), 1)}})

-----------------------------------------------------------------------------
(* Values the inputs are drawn from *)

Identities == {"S1", "S2", "S3"}

Vecs == {Array(<<0, 0>>), Array(<<3, 4>>), Array(<<4, 3>>), Array(<<5, 0>>),
         Array(<<-3, -4>>)}

ThresholdArgs == {<<>>, <<0>>, <<4>>, <<60>>, <<150>>}

AnyMetric == Metrics \cup {"manhattan"}

DistinctKeys(d) == \A i, j \in 1..Len(d) : d[i].key = d[j].key => i = j

DictsOfLen(n) == {d \in [1..n -> [key : Identities, value : Vecs]] : DistinctKeys(d)}

DictsUpTo(n) == UNION {DictsOfLen(k) : k \in 0..n}

\* the request threads of the server
Threads == {"t1", "t2"}

-----------------------------------------------------------------------------
(* The parts of the state a specification does not use *)

NotCalled == <<>>

StoreQuiet == metadata = <<>> /\ npy_files = <<>> /\ json_files = <<>> /\ frames = <<>>
MatchQuiet == query = Array(<<>>) /\ threshold = <<>> /\ match = NotCalled
RateQuiet == fps_limit = 0 /\ last_recognition_time = 0 /\ now = 0 /\ limiter = <<>> /\ acquired = <<>>
LedgerQuiet == results_file = <<>> /\ savers = <<>>
RecogQuiet == call = <<>> /\ returned = <<>>

-----------------------------------------------------------------------------
(* SpecMatch: find_best_match as a function of the cache, the metric, the   *)
(* query and the threshold                                                  *)

MatchInit ==
    /\ cache \in DictsUpTo(MaxCache)
    /\ distance_metric \in AnyMetric
    /\ query \in Vecs
    /\ threshold \in ThresholdArgs
    /\ match = NotCalled
    /\ StoreQuiet /\ RateQuiet /\ LedgerQuiet /\ RecogQuiet

FindBestMatchCall ==
    /\ match = NotCalled
    /\ match' = find_best_match(cache, distance_metric, query, threshold)
    /\ UNCHANGED <<cacheVars, query, threshold, rateVars, ledgerVars, recogVars>>

MatchNext == FindBestMatchCall

SpecMatch == MatchInit /\ [][MatchNext]_vars

-----------------------------------------------------------------------------
(* What the claims about find_best_match speak of *)

Distances == {compare_embeddings(distance_metric, query, Live(cache)[i].value) :
                 i \in 1..Used(cache)}

\* the least distance to a cached embedding; not-a-number compares with nothing
MinDistance ==
    LET S == (Distances \ {NaN}) \cup {Inf}
    IN  CHOOSE m \in S : \A x \in S : m <= x

AtMinDistance == {Live(cache)[i].key : i \in {j \in 1..Used(cache) :
                     compare_embeddings(distance_metric, query, Live(cache)[j].value) = MinDistance}}

Called == match # NotCalled

\* C6: when the minimum distance over a non-empty cache is <= the threshold
\* (equality included), find_best_match returns (identity of a
\* minimum-distance entry, the minimum distance, 1 - the minimum distance),
\* and no cached embedding is closer than the returned distance.
C6_AcceptWithinThreshold ==
    (Called /\ Used(cache) > 0 /\ MinDistance <= EffectiveThreshold(threshold))
        => /\ match[1] \in AtMinDistance
           /\ match[2] = MinDistance
           /\ match[3] = Scale - MinDistance
           /\ \A x \in Distances : ~ FLt(x, match[2])

C6_Witness ==
    /\ Called /\ Used(cache) > 1
    /\ MinDistance = EffectiveThreshold(threshold)
    /\ MinDistance > 0
    /\ match[1] \in Identities

C8_EmptyCache ==
    (Called /\ Used(cache) = 0) => match = <<None, Inf, 0>>

C8_Witness ==
    Called /\ Used(cache) = 0 /\ threshold = <<150>> /\ query = Array(<<3, 4>>)

\* C9: among several cached identities at the same minimum distance,
\* find_best_match reports the one that comes first in the iteration order of
\* the cache mapping.
C9_FirstMinimumWins ==
    (Called /\ match[1] # None)
        => LET items == Live(cache)
               first == CHOOSE i \in 1..Len(items) :
                          /\ compare_embeddings(distance_metric, query, items[i].value) = MinDistance
                          /\ \A j \in 1..(i - 1) :
                               compare_embeddings(distance_metric, query, items[j].value) # MinDistance
           IN  match[1] = items[first].key

C9_Witness ==
    /\ Called /\ Cardinality(AtMinDistance) > 1
    /\ match[1] = Live(cache)[1].key
    /\ match[2] > 0

\* C10: every tuple find_best_match returns, for any threshold argument and
\* any configured metric, has distance >= 0 and confidence in [0,1].
C10_DistanceAndConfidenceInRange ==
    (Called /\ distance_metric \in Metrics)
        => match[2] >= 0 /\ match[3] >= 0 /\ match[3] <= Scale

-----------------------------------------------------------------------------
(* FaceRecognitionService._save_session_results and get_session_results:    *)
(* results.json of a session, appended to by read-modify-write              *)

Sessions == {"sA", "sB"}

Savers == Threads

\* results.json: absent, or holding text that json.load reads as a list, or
\* (opened for writing, nothing written yet) holding text it cannot read
NoFile == [exists |-> FALSE, readable |-> FALSE, list |-> <<>>]
EmptyFile == [exists |-> TRUE, readable |-> FALSE, list |-> <<>>]
JsonFile(list) == [exists |-> TRUE, readable |-> TRUE, list |-> list]

\* the results dict of the n-th recognize_faces call of thread t
Results(t, n, sid) == [session_id |-> sid, thread |-> t, n |-> n]

IdleSaver == [pc |-> "idle", session_id |-> None, results |-> <<>>,
              existing_results |-> <<>>, calls |-> 0, done |-> {}]

LedgerOnly == UNCHANGED <<cacheVars, matchVars, rateVars, recogVars>>

\* line 242: recognize_faces hands its results to _save_session_results
SaveBegin(t, sid) ==
    /\ savers[t].pc = "idle"
    /\ savers[t].calls < MaxSaves
    /\ savers' = [savers EXCEPT ![t].pc = "exists",
                                ![t].session_id = sid,
                                ![t].results = <<Results(t, savers[t].calls + 1, sid)>>,
                                ![t].existing_results = <<>>,
                                ![t].calls = @ + 1]
    /\ UNCHANGED results_file
    /\ LedgerOnly

\* lines 277-278: existing_results = []; if results_file.exists()
SaveCheckExists(t) ==
    /\ savers[t].pc = "exists"
    /\ savers' = [savers EXCEPT ![t].pc =
                     IF results_file[savers[t].session_id].exists THEN "load" ELSE "open"]
    /\ UNCHANGED results_file
    /\ LedgerOnly

\* lines 279-283: json.load, then append; a file json.load cannot read raises,
\* and lines 291-292 log the error and return
SaveLoad(t) ==
    /\ savers[t].pc = "load"
    /\ LET file == results_file[savers[t].session_id]
       IN  IF file.readable
           THEN savers' = [savers EXCEPT ![t].pc = "open",
                                         ![t].existing_results = file.list]
           ELSE savers' = [savers EXCEPT ![t].pc = "idle",
                                         ![t].done = @ \cup {savers[t].results[1]}]
    /\ UNCHANGED results_file
    /\ LedgerOnly

\* line 286: open(results_file, 'w') truncates the file
SaveOpen(t) ==
    /\ savers[t].pc = "open"
    /\ savers' = [savers EXCEPT ![t].pc = "dump"]
    /\ results_file' = [results_file EXCEPT ![savers[t].session_id] = EmptyFile]
    /\ LedgerOnly

\* lines 283-287: the list with the new results appended is written and the
\* file closed; the call returns
SaveDump(t) ==
    /\ savers[t].pc = "dump"
    /\ results_file' = [results_file EXCEPT ![savers[t].session_id] =
                           JsonFile(savers[t].existing_results \o savers[t].results)]
    /\ savers' = [savers EXCEPT ![t].pc = "idle",
                                ![t].done = @ \cup {savers[t].results[1]}]
    /\ LedgerOnly

\* get_session_results: None when the file is absent or cannot be read
get_session_results(sid) ==
    IF results_file[sid].exists /\ results_file[sid].readable
    THEN [none |-> FALSE, list |-> results_file[sid].list]
    ELSE [none |-> TRUE, list |-> <<>>]

LedgerInit ==
    /\ results_file = [sid \in Sessions |-> NoFile]
    /\ savers = [t \in Savers |-> IdleSaver]
    /\ cache = <<>> /\ distance_metric = "cosine"
    /\ StoreQuiet /\ MatchQuiet /\ RateQuiet /\ RecogQuiet

LedgerNext ==
    \/ \E t \in Savers, sid \in Sessions : SaveBegin(t, sid)
    \/ \E t \in Savers : SaveCheckExists(t)
    \/ \E t \in Savers : SaveLoad(t)
    \/ \E t \in Savers : SaveOpen(t)
    \/ \E t \in Savers : SaveDump(t)

SpecLedger == LedgerInit /\ [][LedgerNext]_vars

\* the recognition calls whose _save_session_results has returned
Saved(sid) == {r \in UNION {savers[t].done : t \in Savers} : r.session_id = sid}

NoSaverRunning == \A t \in Savers : savers[t].pc = "idle"

\* C1: N recognition calls appending to one session_id from concurrent
\* threads leave exactly N entries in the final read of the session.
C1_NoLostAppend ==
    \A sid \in Sessions :
        (NoSaverRunning /\ Saved(sid) # {})
            => /\ ~ get_session_results(sid).none
               /\ Len(get_session_results(sid).list) = Cardinality(Saved(sid))

-----------------------------------------------------------------------------
(* FaceRecognitionService._apply_rate_limit.  Time is counted in ticks of    *)
(* 1/TicksPerSecond seconds; the service is constructed long after the epoch *)
(* (last_recognition_time = 0), at StartTime.                                *)

TicksPerSecond == 2
StartTime == 4

FpsLimits == {0, 1, 2}

Callers == Threads

IdleCaller == [pc |-> "idle", current_time |-> 0, wake |-> 0, calls |-> 0]

RateOnly == UNCHANGED <<cacheVars, matchVars, ledgerVars, recogVars>>

min_interval == TicksPerSecond \div fps_limit

\* the clock moves on, whatever the threads do
Tick ==
    /\ now < StartTime + MaxTicks
    /\ now' = now + 1
    /\ UNCHANGED <<fps_limit, last_recognition_time, limiter, acquired>>
    /\ RateOnly

\* lines 38-40: with fps_limit = 0 the call returns at once
RateEnter(t) ==
    /\ limiter[t].pc = "idle"
    /\ limiter[t].calls < MaxAcquires
    /\ IF fps_limit > 0
       THEN /\ limiter' = [limiter EXCEPT ![t].pc = "read", ![t].current_time = now,
                                          ![t].calls = @ + 1]
            /\ UNCHANGED acquired
       ELSE /\ limiter' = [limiter EXCEPT ![t].calls = @ + 1]
            /\ acquired' = Append(acquired, now)
    /\ UNCHANGED <<fps_limit, last_recognition_time, now>>
    /\ RateOnly

\* lines 41-46: read last_recognition_time, sleep when the interval is not over
RateRead(t) ==
    /\ limiter[t].pc = "read"
    /\ LET time_since_last == limiter[t].current_time - last_recognition_time
       IN  IF time_since_last < min_interval
           THEN limiter' = [limiter EXCEPT ![t].pc = "sleep",
                                           ![t].wake = now + (min_interval - time_since_last)]
           ELSE limiter' = [limiter EXCEPT ![t].pc = "set"]
    /\ UNCHANGED <<fps_limit, last_recognition_time, now, acquired>>
    /\ RateOnly

\* mutant: time.sleep returns at once
RateWake_AtOnce(t) ==
    /\ limiter[t].pc = "sleep"
    /\ limiter' = [limiter EXCEPT ![t].pc = "set"]
    /\ UNCHANGED <<fps_limit, last_recognition_time, now, acquired>>
    /\ RateOnly

\* line 46: time.sleep returns once sleep_time has passed
RateWake(t) ==
    /\ limiter[t].pc = "sleep"
    /\ now >= limiter[t].wake
    /\ limiter' = [limiter EXCEPT ![t].pc = "set"]
    /\ UNCHANGED <<fps_limit, last_recognition_time, now, acquired>>
    /\ RateOnly

\* line 48: last_recognition_time = time.time(); the call returns
RateSet(t) ==
    /\ limiter[t].pc = "set"
    /\ last_recognition_time' = now
    /\ acquired' = Append(acquired, now)
    /\ limiter' = [limiter EXCEPT ![t].pc = "idle"]
    /\ UNCHANGED <<fps_limit, now>>
    /\ RateOnly

RateInit ==
    /\ fps_limit \in FpsLimits
    /\ last_recognition_time = 0
    /\ now = StartTime
    /\ limiter = [t \in Callers |-> IdleCaller]
    /\ acquired = <<>>
    /\ cache = <<>> /\ distance_metric = "cosine"
    /\ StoreQuiet /\ MatchQuiet /\ LedgerQuiet /\ RecogQuiet

RateNext ==
    \/ Tick
    \/ \E t \in Callers : RateEnter(t)
    \/ \E t \in Callers : RateRead(t)
    \/ \E t \in Callers : RateWake(t)
    \/ \E t \in Callers : RateSet(t)

SpecRate == RateInit /\ [][RateNext]_vars

\* C2: with fps_limit > 0, the instants at which any two acquire calls of
\* concurrent callers complete are at least 1/fps_limit apart.
C2_AcquiresSpaced ==
    fps_limit > 0 =>
        \A i, j \in 1..Len(acquired) :
            i < j => acquired[j] - acquired[i] >= min_interval

\* ---- one caller ----
SingleCaller == "t1"

SingleNext ==
    \/ Tick
    \/ RateEnter(SingleCaller)
    \/ RateRead(SingleCaller)
    \/ RateWake(SingleCaller)
    \/ RateSet(SingleCaller)

SpecRateSingle == RateInit /\ [][SingleNext]_vars

\* C11: for a single caller and fps_limit > 0, two consecutive acquire calls
\* complete at least 1/fps_limit apart; the later call records its timestamp
\* only once the remaining interval has been slept.
C11_ConsecutiveAcquiresSpaced ==
    fps_limit > 0 =>
        /\ \A i \in 1..(Len(acquired) - 1) : acquired[i + 1] - acquired[i] >= min_interval
        /\ limiter[SingleCaller].pc = "set" => now - last_recognition_time >= min_interval

C11_Witness ==
    /\ fps_limit = 2
    /\ Len(acquired) = 2
    /\ acquired[2] - acquired[1] = min_interval
    /\ limiter[SingleCaller].wake > 0

-----------------------------------------------------------------------------
(* EmbeddingCache under concurrent request threads.  A call is a sequence   *)
(* of steps, each one access to the shared dicts or to the files; threads   *)
(* switch between steps.                                                    *)

StoreIdentities == {"S1", "S2"}

StoreVecs == {Array(<<3, 4>>), Array(<<-3, -4>>)}

\* a metadata dict, told apart by the call that built it
Meta(t, n) == [cached_by |-> t, n |-> n]

\* the metadata dict and the files: student_id -> value, for the ids present
Assign(f, k, v) == [x \in DOMAIN f \cup {k} |-> IF x = k THEN v ELSE f[x]]
Remove(f, k) == [x \in DOMAIN f \ {k} |-> f[x]]

IdleFrame == [op |-> "none", pc |-> "idle", student_id |-> None,
              embedding |-> Array(<<>>), meta |-> Meta("none", 0), to_disk |-> FALSE,
              q |-> Array(<<>>), th |-> <<>>, it_pos |-> 0, it_used |-> 0,
              best |-> InitialBest, seen |-> {},
              ok |-> FALSE, found |-> NotCalled, raised |-> FALSE, calls |-> 0]

TotalCalls == frames["t1"].calls + frames["t2"].calls

Running(f) == f.pc # "idle"

\* every find_best_match call under way has now seen the mapping c as well
Observing(fs, c) ==
    [t \in Threads |->
        IF fs[t].op = "find_best_match" /\ Running(fs[t])
        THEN [fs[t] EXCEPT !.seen = @ \cup {Live(c)}]
        ELSE fs[t]]

StoreOnly == UNCHANGED <<distance_metric, matchVars, rateVars, ledgerVars, recogVars>>

\* mutant: any shape passes the check of line 109
ValidShape_Any(embedding) == TRUE

ValidShape(embedding) ==
    embedding.shape = <<EMBEDDING_DIM>> \/ embedding.shape = <<1, EMBEDDING_DIM>>

Flatten(embedding) == Array(embedding.data)

\* ---- set_embedding ----

\* lines 107-115: the shape is checked and the array flattened
SetBegin(t, sid, embedding, save_to_disk) ==
    /\ ~ Running(frames[t])
    /\ TotalCalls < MaxCalls
    /\ LET n == frames[t].calls + 1
           f == [IdleFrame EXCEPT !.op = "set_embedding", !.student_id = sid,
                                  !.to_disk = save_to_disk, !.meta = Meta(t, n),
                                  !.calls = n]
       IN  IF ValidShape(embedding)
           THEN frames' = [frames EXCEPT ![t] =
                              [f EXCEPT !.pc = "cache", !.embedding = Flatten(embedding)]]
           ELSE frames' = [frames EXCEPT ![t] = [f EXCEPT !.embedding = embedding]]
    /\ UNCHANGED <<cache, metadata, npy_files, json_files>>
    /\ StoreOnly

\* line 118: self.cache[student_id] = embedding
SetCache(t) ==
    /\ frames[t].op = "set_embedding" /\ frames[t].pc = "cache"
    /\ cache' = Put(cache, frames[t].student_id, frames[t].embedding)
    /\ frames' = Observing([frames EXCEPT ![t].pc = "metadata"], cache')
    /\ UNCHANGED <<metadata, npy_files, json_files>>
    /\ StoreOnly

\* lines 121-133: self.metadata[student_id] = metadata; return True unless
\* save_to_disk
SetMetadata(t) ==
    /\ frames[t].op = "set_embedding" /\ frames[t].pc = "metadata"
    /\ metadata' = Assign(metadata, frames[t].student_id, frames[t].meta)
    /\ frames' = [frames EXCEPT ![t].pc = IF frames[t].to_disk THEN "npy" ELSE "idle",
                                ![t].ok = ~ frames[t].to_disk]
    /\ UNCHANGED <<cache, npy_files, json_files>>
    /\ StoreOnly

\* lines 134-135: np.save writes the .npy file
SetSaveNpy(t) ==
    /\ frames[t].op = "set_embedding" /\ frames[t].pc = "npy"
    /\ npy_files' = Assign(npy_files, frames[t].student_id, frames[t].embedding)
    /\ frames' = [frames EXCEPT ![t].pc = "json"]
    /\ UNCHANGED <<cache, metadata, json_files>>
    /\ StoreOnly

\* lines 135, 146-148: np.save raises; the error is logged, False returned
SetSaveNpyFails(t) ==
    /\ frames[t].op = "set_embedding" /\ frames[t].pc = "npy"
    /\ frames' = [frames EXCEPT ![t].pc = "idle", ![t].ok = FALSE]
    /\ UNCHANGED <<cache, metadata, npy_files, json_files>>
    /\ StoreOnly

\* lines 138-144: the .json file is written; return True
SetSaveJson(t) ==
    /\ frames[t].op = "set_embedding" /\ frames[t].pc = "json"
    /\ json_files' = Assign(json_files, frames[t].student_id, frames[t].meta)
    /\ frames' = [frames EXCEPT ![t].pc = "idle", ![t].ok = TRUE]
    /\ UNCHANGED <<cache, metadata, npy_files>>
    /\ StoreOnly

\* ---- find_best_match ----

\* lines 243-249: the default threshold; an empty cache returns at once
FindBegin(t, query_embedding, th) ==
    /\ ~ Running(frames[t])
    /\ TotalCalls < MaxCalls
    /\ LET f == [IdleFrame EXCEPT !.op = "find_best_match", !.q = query_embedding,
                                  !.th = th, !.seen = {Live(cache)},
                                  !.calls = frames[t].calls + 1]
       IN  IF Used(cache) = 0
           THEN frames' = [frames EXCEPT ![t] = [f EXCEPT !.found = EmptyCacheResult]]
           ELSE frames' = [frames EXCEPT ![t] = [f EXCEPT !.pc = "iter"]]
    /\ UNCHANGED <<cache, metadata, npy_files, json_files>>
    /\ StoreOnly

\* lines 251-255: the iterator of self.cache.items() remembers the size of
\* the dict
FindIter(t) ==
    /\ frames[t].op = "find_best_match" /\ frames[t].pc = "iter"
    /\ frames' = [frames EXCEPT ![t].pc = "next", ![t].it_pos = 1,
                                ![t].it_used = Used(cache), ![t].best = InitialBest]
    /\ UNCHANGED <<cache, metadata, npy_files, json_files>>
    /\ StoreOnly

\* the slots holding an item, from slot i on
ItemsFrom(d, i) == {j \in i..Len(d) : d[j].key # DummyKey}

NextItem(d, i) == CHOOSE j \in ItemsFrom(d, i) : \A k \in ItemsFrom(d, i) : j <= k

\* lines 255-273: the next item and the loop body.  A dict whose size has
\* changed raises RuntimeError, which lines 271-273 turn into (None, inf, 0.0);
\* past the last slot the loop ends and lines 262-269 decide.
FindNext(t) ==
    /\ frames[t].op = "find_best_match" /\ frames[t].pc = "next"
    /\ LET f == frames[t]
       IN  IF f.it_used # Used(cache)
           THEN frames' = [frames EXCEPT ![t].pc = "idle", ![t].found = ErrorResult]
           ELSE IF ItemsFrom(cache, f.it_pos) = {}
           THEN frames' = [frames EXCEPT ![t].pc = "idle",
                               ![t].found = Decide(f.best, EffectiveThreshold(f.th))]
           ELSE LET j == NextItem(cache, f.it_pos)
                IN  frames' = [frames EXCEPT ![t].it_pos = j + 1,
                                   ![t].best = ScanStep(distance_metric, f.q, f.best, cache[j])]
    /\ UNCHANGED <<cache, metadata, npy_files, json_files>>
    /\ StoreOnly

\* ---- delete_embedding ----

DeleteBegin(t, sid, delete_from_disk) ==
    /\ ~ Running(frames[t])
    /\ TotalCalls < MaxCalls
    /\ frames' = [frames EXCEPT ![t] =
                     [IdleFrame EXCEPT !.op = "delete_embedding", !.pc = "in_cache",
                                       !.student_id = sid, !.to_disk = delete_from_disk,
                                       !.calls = frames[t].calls + 1]]
    /\ UNCHANGED <<cache, metadata, npy_files, json_files>>
    /\ StoreOnly

\* line 343: if student_id in self.cache
DeleteTestCache(t) ==
    /\ frames[t].op = "delete_embedding" /\ frames[t].pc = "in_cache"
    /\ frames' = [frames EXCEPT ![t].pc =
                     IF Has(cache, frames[t].student_id) THEN "del_cache" ELSE "in_metadata"]
    /\ UNCHANGED <<cache, metadata, npy_files, json_files>>
    /\ StoreOnly

\* line 344: del self.cache[student_id]; a key gone meanwhile raises KeyError,
\* and lines 362-364 return False
DeleteDelCache(t) ==
    /\ frames[t].op = "delete_embedding" /\ frames[t].pc = "del_cache"
    /\ IF Has(cache, frames[t].student_id)
       THEN /\ cache' = Del(cache, frames[t].student_id)
            /\ frames' = Observing([frames EXCEPT ![t].pc = "in_metadata"], cache')
       ELSE /\ frames' = [frames EXCEPT ![t].pc = "idle", ![t].ok = FALSE]
            /\ UNCHANGED cache
    /\ UNCHANGED <<metadata, npy_files, json_files>>
    /\ StoreOnly

\* line 345: if student_id in self.metadata
DeleteTestMetadata(t) ==
    /\ frames[t].op = "delete_embedding" /\ frames[t].pc = "in_metadata"
    /\ frames' = [frames EXCEPT ![t].pc =
                     IF frames[t].student_id \in DOMAIN metadata THEN "del_metadata"
                     ELSE IF frames[t].to_disk THEN "unlink_npy" ELSE "idle",
                                ![t].ok =
                     frames[t].student_id \notin DOMAIN metadata /\ ~ frames[t].to_disk]
    /\ UNCHANGED <<cache, metadata, npy_files, json_files>>
    /\ StoreOnly

\* line 346: del self.metadata[student_id]
DeleteDelMetadata(t) ==
    /\ frames[t].op = "delete_embedding" /\ frames[t].pc = "del_metadata"
    /\ IF frames[t].student_id \in DOMAIN metadata
       THEN /\ metadata' = Remove(metadata, frames[t].student_id)
            /\ frames' = [frames EXCEPT ![t].pc = IF frames[t].to_disk THEN "unlink_npy" ELSE "idle",
                                        ![t].ok = ~ frames[t].to_disk]
       ELSE /\ frames' = [frames EXCEPT ![t].pc = "idle", ![t].ok = FALSE]
            /\ UNCHANGED metadata
    /\ UNCHANGED <<cache, npy_files, json_files>>
    /\ StoreOnly

\* lines 350-352: the .npy file, when there, is unlinked
DeleteUnlinkNpy(t) ==
    /\ frames[t].op = "delete_embedding" /\ frames[t].pc = "unlink_npy"
    /\ npy_files' = Remove(npy_files, frames[t].student_id)
    /\ frames' = [frames EXCEPT ![t].pc = "unlink_json"]
    /\ UNCHANGED <<cache, metadata, json_files>>
    /\ StoreOnly

\* lines 354-360: the .json file, when there, is unlinked; return True
DeleteUnlinkJson(t) ==
    /\ frames[t].op = "delete_embedding" /\ frames[t].pc = "unlink_json"
    /\ json_files' = Remove(json_files, frames[t].student_id)
    /\ frames' = [frames EXCEPT ![t].pc = "idle", ![t].ok = TRUE]
    /\ UNCHANGED <<cache, metadata, npy_files>>
    /\ StoreOnly

\* ---- clear_cache ----

\* line 319: if student_id (None clears everything)
ClearBegin(t, sid) ==
    /\ ~ Running(frames[t])
    /\ TotalCalls < MaxCalls
    /\ frames' = [frames EXCEPT ![t] =
                     [IdleFrame EXCEPT !.op = "clear_cache",
                                       !.pc = IF sid = None THEN "clear_cache" ELSE "in_cache",
                                       !.student_id = sid,
                                       !.calls = frames[t].calls + 1]]
    /\ UNCHANGED <<cache, metadata, npy_files, json_files>>
    /\ StoreOnly

\* line 320: if student_id in self.cache
ClearTestCache(t) ==
    /\ frames[t].op = "clear_cache" /\ frames[t].pc = "in_cache"
    /\ frames' = [frames EXCEPT ![t].pc =
                     IF Has(cache, frames[t].student_id) THEN "del_cache" ELSE "idle"]
    /\ UNCHANGED <<cache, metadata, npy_files, json_files>>
    /\ StoreOnly

\* line 321: del self.cache[student_id]; KeyError is not caught here
ClearDelCache(t) ==
    /\ frames[t].op = "clear_cache" /\ frames[t].pc = "del_cache"
    /\ IF Has(cache, frames[t].student_id)
       THEN /\ cache' = Del(cache, frames[t].student_id)
            /\ frames' = Observing([frames EXCEPT ![t].pc = "in_metadata"], cache')
       ELSE /\ frames' = [frames EXCEPT ![t].pc = "idle", ![t].raised = TRUE]
            /\ UNCHANGED cache
    /\ UNCHANGED <<metadata, npy_files, json_files>>
    /\ StoreOnly

\* line 322: if student_id in self.metadata
ClearTestMetadata(t) ==
    /\ frames[t].op = "clear_cache" /\ frames[t].pc = "in_metadata"
    /\ frames' = [frames EXCEPT ![t].pc =
                     IF frames[t].student_id \in DOMAIN metadata THEN "del_metadata" ELSE "idle"]
    /\ UNCHANGED <<cache, metadata, npy_files, json_files>>
    /\ StoreOnly

\* line 323: del self.metadata[student_id]
ClearDelMetadata(t) ==
    /\ frames[t].op = "clear_cache" /\ frames[t].pc = "del_metadata"
    /\ IF frames[t].student_id \in DOMAIN metadata
       THEN /\ metadata' = Remove(metadata, frames[t].student_id)
            /\ frames' = [frames EXCEPT ![t].pc = "idle"]
       ELSE /\ frames' = [frames EXCEPT ![t].pc = "idle", ![t].raised = TRUE]
            /\ UNCHANGED metadata
    /\ UNCHANGED <<cache, npy_files, json_files>>
    /\ StoreOnly

\* line 326: self.cache.clear()
ClearAllCache(t) ==
    /\ frames[t].op = "clear_cache" /\ frames[t].pc = "clear_cache"
    /\ cache' = <<>>
    /\ frames' = Observing([frames EXCEPT ![t].pc = "clear_metadata"], cache')
    /\ UNCHANGED <<metadata, npy_files, json_files>>
    /\ StoreOnly

\* line 327: self.metadata.clear()
ClearAllMetadata(t) ==
    /\ frames[t].op = "clear_cache" /\ frames[t].pc = "clear_metadata"
    /\ metadata' = <<>>
    /\ frames' = [frames EXCEPT ![t].pc = "idle"]
    /\ UNCHANGED <<cache, npy_files, json_files>>
    /\ StoreOnly

\* ---- SpecStore ----

\* a store as _load_all_embeddings leaves it: every record of the folder in
\* the cache, with its metadata
Preloaded(d) ==
    /\ cache = d
    /\ metadata = [k \in Keys(d) |-> Meta("disk", 0)]
    /\ npy_files = [k \in Keys(d) |-> Get(d, k)]
    /\ json_files = [k \in Keys(d) |-> Meta("disk", 0)]

StoreDicts ==
    {d \in UNION {[1..n -> [key : StoreIdentities, value : StoreVecs]] : n \in 0..2} :
        DistinctKeys(d)}

StoreInit ==
    /\ \E d \in StoreDicts : Preloaded(d)
    /\ distance_metric = "cosine"
    /\ frames = [t \in Threads |-> IdleFrame]
    /\ MatchQuiet /\ RateQuiet /\ LedgerQuiet /\ RecogQuiet

StoreNext ==
    \/ \E t \in Threads, sid \in StoreIdentities, e \in StoreVecs, b \in BOOLEAN :
          SetBegin(t, sid, e, b)
    \/ \E t \in Threads : SetCache(t)
    \/ \E t \in Threads : SetMetadata(t)
    \/ \E t \in Threads : SetSaveNpy(t)
    \/ \E t \in Threads : SetSaveNpyFails(t)
    \/ \E t \in Threads : SetSaveJson(t)
    \/ \E t \in Threads, q \in StoreVecs : FindBegin(t, q, <<>>)
    \/ \E t \in Threads : FindIter(t)
    \/ \E t \in Threads : FindNext(t)
    \/ \E t \in Threads, sid \in StoreIdentities, b \in BOOLEAN : DeleteBegin(t, sid, b)
    \/ \E t \in Threads : DeleteTestCache(t)
    \/ \E t \in Threads : DeleteDelCache(t)
    \/ \E t \in Threads : DeleteTestMetadata(t)
    \/ \E t \in Threads : DeleteDelMetadata(t)
    \/ \E t \in Threads : DeleteUnlinkNpy(t)
    \/ \E t \in Threads : DeleteUnlinkJson(t)
    \/ \E t \in Threads, sid \in StoreIdentities \cup {None} : ClearBegin(t, sid)
    \/ \E t \in Threads : ClearTestCache(t)
    \/ \E t \in Threads : ClearDelCache(t)
    \/ \E t \in Threads : ClearTestMetadata(t)
    \/ \E t \in Threads : ClearDelMetadata(t)
    \/ \E t \in Threads : ClearAllCache(t)
    \/ \E t \in Threads : ClearAllMetadata(t)

SpecStore == StoreInit /\ [][StoreNext]_vars

Returned(t, op) == frames[t].op = op /\ ~ Running(frames[t])

\* C3: a find_best_match call that runs while set_embedding, delete_embedding
\* or clear_cache write the mapping returns what find_best_match gives on the
\* mapping as it was at some moment of the call, before or after each write.
C3_ConsistentSnapshot ==
    \A t \in Threads :
        Returned(t, "find_best_match")
            => \E c \in frames[t].seen :
                  frames[t].found = find_best_match(c, distance_metric, frames[t].q, frames[t].th)

\* both threads have made one call, a set_embedding with save_to_disk of the
\* identity sid, with different vectors, and both returned True
TwoUpsertsDone(sid) ==
    /\ \A t \in Threads :
          /\ Returned(t, "set_embedding") /\ frames[t].calls = 1
          /\ frames[t].student_id = sid /\ frames[t].to_disk /\ frames[t].ok
    /\ frames["t1"].embedding # frames["t2"].embedding

\* C4: after two concurrent set_embedding calls with save_to_disk for one
\* identity, both successful, the vector in memory, the metadata in memory and
\* the durable record come from one writer, so a reload gives the vector
\* get_embedding gave before.
C4_UpsertExclusive ==
    \A sid \in StoreIdentities :
        TwoUpsertsDone(sid)
            => \E t \in Threads :
                  /\ Get(cache, sid) = frames[t].embedding
                  /\ metadata[sid] = frames[t].meta
                  /\ npy_files[sid] = frames[t].embedding
                  /\ json_files[sid] = frames[t].meta

-----------------------------------------------------------------------------
(* FaceRecognitionService.recognize_faces, one call at a time.  The image    *)
(* stands for what the collaborators make of it: whether preprocessing       *)
(* raises, what the detector returns, whether a crop raises, what the        *)
(* embedding model returns.                                                  *)

MIN_CONFIDENCE == 50

\* generate_embedding returned None
NoEmbedding == [shape |-> <<>>, data |-> <<>>]

\* uuid.uuid4(): the n-th identifier generated
Uuid(n) == [k \in 1..3 |-> <<"uuid-1", "uuid-2", "uuid-3">>[k]][n]

SuppliedSessions == {"sA"}

AllSessions == SuppliedSessions \cup {Uuid(n) : n \in 1..3}

\* round(x, 4): floats of this model have two decimal places
Round4(x) == x

\* what DeepFace.extract_faces returns: face objects with their confidence
DetectorConfidences == {30, 90}

FaceObjs == [facial_area : 1..MaxFaces, confidence : DetectorConfidences]

DetectorOutputs ==
    {fs \in UNION {[1..n -> FaceObjs] : n \in 0..MaxFaces} :
        \A i \in 1..Len(fs) : fs[i].facial_area = i}

\* image_processor.extract_faces_from_frame, lines 174-194: the faces at or
\* above min_confidence, in the detector's order; [] when the detector raised
extract_faces_from_frame(raised, face_objs, min_confidence) ==
    IF raised THEN <<>>
    ELSE LET kept == SelectSeq(face_objs, LAMBDA f : f.confidence >= min_confidence)
         IN  [i \in 1..Len(kept) |->
                 [confidence |-> Round4(kept[i].confidence), region |-> kept[i].facial_area]]

\* the dicts recognize_faces returns; a key the dict lacks is <<>>
NoFacesResult_Success(sid) ==
    [success |-> TRUE, message |-> <<"No faces detected in the image">>, error |-> <<>>,
     session_id |-> sid, recognized_students |-> <<>>, total_faces_detected |-> <<0>>,
     total_recognized |-> <<>>]

NoFacesResult(sid) ==
    [success |-> FALSE, message |-> <<"No faces detected in the image">>, error |-> <<>>,
     session_id |-> sid, recognized_students |-> <<>>, total_faces_detected |-> <<0>>,
     total_recognized |-> <<>>]

ExceptionResult(sid, e) ==
    [success |-> FALSE, message |-> <<>>, error |-> <<e>>,
     session_id |-> sid, recognized_students |-> <<>>, total_faces_detected |-> <<>>,
     total_recognized |-> <<>>]

SuccessResult(sid, recognized_students, faces) ==
    [success |-> TRUE, message |-> <<"Recognized">>, error |-> <<>>,
     session_id |-> sid, recognized_students |-> recognized_students,
     total_faces_detected |-> <<Len(faces)>>,
     total_recognized |-> <<Len(recognized_students)>>]

\* mutant: the matching loop ends at the first face without an embedding
RECURSIVE MatchFaces_StopAtFailure(_, _, _, _)
MatchFaces_StopAtFailure(d, metric, face_embeddings, i) ==
    IF i > Len(face_embeddings) \/ face_embeddings[i].embedding = NoEmbedding THEN <<>>
    ELSE LET face_data == face_embeddings[i]
             m == find_best_match(d, metric, face_data.embedding, <<CONFIDENCE_THRESHOLD>>)
             rest == MatchFaces_StopAtFailure(d, metric, face_embeddings, i + 1)
         IN  IF m[1] # None
             THEN <<[student_id |-> m[1], confidence |-> Round4(m[3]),
                     distance |-> Round4(m[2]), face_region |-> face_data.face.region,
                     detection_confidence |-> face_data.face.confidence]>> \o rest
             ELSE rest

\* lines 208-223: the recognized students among face_embeddings[i..]
RECURSIVE MatchFaces(_, _, _, _)
MatchFaces(d, metric, face_embeddings, i) ==
    IF i > Len(face_embeddings) THEN <<>>
    ELSE LET face_data == face_embeddings[i]
             rest == MatchFaces(d, metric, face_embeddings, i + 1)
         IN  The({IF face_data.embedding # NoEmbedding /\ m[1] # None
                  THEN <<[student_id |-> m[1], confidence |-> Round4(m[3]),
                          distance |-> Round4(m[2]), face_region |-> face_data.face.region,
                          detection_confidence |-> face_data.face.confidence]>> \o rest
                  ELSE rest :
                     m \in {find_best_match(d, metric, face_data.embedding,
                                            <<CONFIDENCE_THRESHOLD>>)}})

\* mutant: results.json is written anew with the one result
SavedFile_Overwrite(file, results) == JsonFile(<<results>>)

\* _save_session_results with nothing else running: lines 277-287
SavedFile(file, results) ==
    IF ~ file.exists THEN JsonFile(<<results>>)
    ELSE IF file.readable THEN JsonFile(Append(file.list, results))
    ELSE file

NoCall == [pc |-> "idle", session_id |-> None, preprocess |-> FALSE, save_results |-> FALSE,
           detector_ran |-> FALSE, faces |-> <<>>, face_embeddings |-> <<>>,
           results |-> <<>>, n |-> 0, uuids |-> 0, persist |-> "none",
           ledger_before |-> <<>>, given |-> None, log |-> <<>>]

\* the calls that have returned so far: what each was given, what it
\* returned, and whether its results were written
Logged(c, result, persist) ==
    Append(c.log, [given |-> c.given, session_id |-> c.session_id,
                   result |-> result, persist |-> persist])

RecogOnly == UNCHANGED <<cacheVars, matchVars, savers>>

\* lines 155-163: the rate limiter (the caller sleeps as long as
\* _apply_rate_limit asks), then the session id
RecognizeBegin(sid, preprocess, save_results) ==
    /\ call.pc \in {"idle", "done"}
    /\ call.n < MaxRecognitions
    /\ IF fps_limit > 0
       THEN LET time_since_last == now - last_recognition_time
            IN  /\ now' = IF time_since_last < min_interval
                          THEN now + (min_interval - time_since_last) ELSE now
                /\ last_recognition_time' = now'
       ELSE UNCHANGED <<now, last_recognition_time>>
    /\ call' = [NoCall EXCEPT !.pc = "preprocess",
                              !.session_id = IF sid = None THEN Uuid(call.uuids + 1) ELSE sid,
                              !.uuids = IF sid = None THEN call.uuids + 1 ELSE call.uuids,
                              !.preprocess = preprocess, !.save_results = save_results,
                              !.n = call.n + 1, !.ledger_before = results_file,
                              !.given = sid, !.log = call.log]
    /\ returned' = <<>>
    /\ UNCHANGED <<fps_limit, limiter, acquired, results_file>>
    /\ RecogOnly

\* lines 167-169 and 248-255: preprocess_image, which may raise
RecognizePreprocess(raises) ==
    /\ call.pc = "preprocess"
    /\ raises => call.preprocess
    /\ IF raises
       THEN /\ call' = [call EXCEPT !.pc = "done",
                   !.log = Logged(call, ExceptionResult(call.session_id, "preprocess"), "none")]
            /\ returned' = <<ExceptionResult(call.session_id, "preprocess")>>
       ELSE /\ call' = [call EXCEPT !.pc = "detect"]
            /\ UNCHANGED returned
    /\ UNCHANGED <<rateVars, results_file>>
    /\ RecogOnly

\* lines 171-186: the faces; none of them ends the call
RecognizeDetect(raised, face_objs) ==
    /\ call.pc = "detect"
    /\ raised => face_objs = <<>>
    /\ LET faces == extract_faces_from_frame(raised, face_objs, MIN_CONFIDENCE)
       IN  IF faces = <<>>
           THEN /\ call' = [call EXCEPT !.pc = "done", !.detector_ran = TRUE,
                       !.log = Logged(call, NoFacesResult(call.session_id), "none")]
                /\ returned' = <<NoFacesResult(call.session_id)>>
           ELSE /\ call' = [call EXCEPT !.pc = "face", !.detector_ran = TRUE, !.faces = faces]
                /\ UNCHANGED returned
    /\ UNCHANGED <<rateVars, results_file>>
    /\ RecogOnly

\* mutant: an exception of crop_face_region is not caught
RecognizeFace_CropPropagates(crop_raises, embedding) ==
    /\ call.pc = "face"
    /\ LET i == Len(call.face_embeddings) + 1
       IN  IF crop_raises
           THEN call' = [call EXCEPT !.pc = "raised"]
           ELSE call' = [call EXCEPT
                            !.face_embeddings = Append(@, [face |-> call.faces[i],
                                                           embedding |-> embedding]),
                            !.pc = IF i = Len(call.faces) THEN "match" ELSE "face"]
    /\ UNCHANGED <<rateVars, results_file, returned>>
    /\ RecogOnly

\* mutant: the embedding of a query face is kept in the cache
RecognizeFace_StoresQuery(crop_raises, embedding) ==
    /\ call.pc = "face"
    /\ LET i == Len(call.face_embeddings) + 1
       IN  IF crop_raises
           THEN /\ call' = [call EXCEPT !.pc = "done",
                       !.log = Logged(call, ExceptionResult(call.session_id, "crop"), "none")]
                /\ returned' = <<ExceptionResult(call.session_id, "crop")>>
                /\ UNCHANGED cache
           ELSE /\ call' = [call EXCEPT
                               !.face_embeddings = Append(@, [face |-> call.faces[i],
                                                              embedding |-> embedding]),
                               !.pc = IF i = Len(call.faces) THEN "match" ELSE "face"]
                /\ cache' = IF embedding = NoEmbedding THEN cache
                            ELSE Put(cache, "query", embedding)
                /\ UNCHANGED returned
    /\ UNCHANGED <<rateVars, results_file>>
    /\ UNCHANGED <<metadata, distance_metric, npy_files, json_files, frames, matchVars, savers>>

\* mutant: a failure of crop_face_region ends the loop over the faces, not the
\* call
RecognizeFace_CropEndsLoop(crop_raises, embedding) ==
    /\ call.pc = "face"
    /\ LET i == Len(call.face_embeddings) + 1
       IN  IF crop_raises
           THEN call' = [call EXCEPT !.pc = "match"]
           ELSE call' = [call EXCEPT
                            !.face_embeddings = Append(@, [face |-> call.faces[i],
                                                           embedding |-> embedding]),
                            !.pc = IF i = Len(call.faces) THEN "match" ELSE "face"]
    /\ UNCHANGED <<rateVars, results_file, returned>>
    /\ RecogOnly

\* lines 190-205: the next face is cropped (crop_face_region may raise, which
\* ends the call at lines 248-255) and its embedding generated
RecognizeFace(crop_raises, embedding) ==
    /\ call.pc = "face"
    /\ LET i == Len(call.face_embeddings) + 1
       IN  IF crop_raises
           THEN /\ call' = [call EXCEPT !.pc = "done",
                       !.log = Logged(call, ExceptionResult(call.session_id, "crop"), "none")]
                /\ returned' = <<ExceptionResult(call.session_id, "crop")>>
           ELSE /\ call' = [call EXCEPT
                               !.face_embeddings = Append(@, [face |-> call.faces[i],
                                                              embedding |-> embedding]),
                               !.pc = IF i = Len(call.faces) THEN "match" ELSE "face"]
                /\ UNCHANGED returned
    /\ UNCHANGED <<rateVars, results_file>>
    /\ RecogOnly

\* lines 207-238: every embedding is matched against the cache
RecognizeMatch ==
    /\ call.pc = "match"
    /\ call' = [call EXCEPT !.pc = "persist",
                   !.results = <<SuccessResult(call.session_id,
                                     MatchFaces(cache, distance_metric, call.face_embeddings, 1),
                                     call.faces)>>]
    /\ UNCHANGED <<rateVars, results_file, returned>>
    /\ RecogOnly

\* what becomes of _save_session_results: it returns normally, or an I/O
\* error is raised before results.json is opened for writing (mkdir, open for
\* reading, json.load), or one is raised after (json.dump, close)
PersistOutcomes == {"saved", "raised", "raised_writing"}

\* lines 265-292: results.json after the call
FileAfter(file, results, io) ==
    CASE io = "raised" -> file
      [] io = "raised_writing" -> IF file.exists /\ ~ file.readable THEN file ELSE EmptyFile
      [] OTHER -> SavedFile(file, results)

\* whether results was written to results.json
Persisted(file, io) ==
    IF io = "saved" /\ (file.exists => file.readable) THEN "saved" ELSE "failed"

\* mutant: the results are saved whatever save_results says
RecognizePersist_AlwaysSaves(io) ==
    /\ call.pc = "persist"
    /\ results_file' =
          [results_file EXCEPT ![call.session_id] = FileAfter(@, call.results[1], io)]
    /\ call' = [call EXCEPT !.pc = "done",
                            !.persist = Persisted(results_file[call.session_id], io),
                            !.log = Logged(call, call.results[1],
                                           Persisted(results_file[call.session_id], io))]
    /\ returned' = call.results
    /\ UNCHANGED rateVars
    /\ RecogOnly

\* lines 240-246: the results are saved when save_results, and returned;
\* lines 291-292: an error while saving is logged and goes no further
RecognizePersist(io) ==
    /\ call.pc = "persist"
    /\ ~ call.save_results => io = "saved"
    /\ results_file' =
          IF call.save_results
          THEN [results_file EXCEPT ![call.session_id] = FileAfter(@, call.results[1], io)]
          ELSE results_file
    /\ LET persist == IF call.save_results
                       THEN Persisted(results_file[call.session_id], io) ELSE "none"
       IN  call' = [call EXCEPT !.pc = "done", !.persist = persist,
                                !.log = Logged(call, call.results[1], persist)]
    /\ returned' = call.results
    /\ UNCHANGED rateVars
    /\ RecogOnly

RecogDicts ==
    {<<>>, <<[key |-> "S1", value |-> Array(<<3, 4>>)],
             [key |-> "S2", value |-> Array(<<-3, -4>>)]>>}

RecogInit ==
    /\ \E d \in RecogDicts : Preloaded(d)
    /\ distance_metric = "cosine"
    /\ frames = <<>>
    /\ fps_limit \in {0, 1}
    /\ last_recognition_time = 0 /\ now = StartTime
    /\ limiter = <<>> /\ acquired = <<>>
    /\ results_file = [sid \in AllSessions |-> NoFile]
    /\ savers = <<>>
    /\ call = NoCall /\ returned = <<>>
    /\ MatchQuiet

RecogNext ==
    \/ \E sid \in SuppliedSessions \cup {None}, p \in BOOLEAN, sv \in BOOLEAN :
          RecognizeBegin(sid, p, sv)
    \/ \E raises \in BOOLEAN : RecognizePreprocess(raises)
    \/ \E raised \in BOOLEAN, face_objs \in DetectorOutputs : RecognizeDetect(raised, face_objs)
    \/ \E crop_raises \in BOOLEAN, e \in StoreVecs \cup {NoEmbedding} :
          RecognizeFace(crop_raises, e)
    \/ RecognizeMatch
    \/ \E io \in PersistOutcomes : RecognizePersist(io)

SpecRecog == RecogInit /\ [][RecogNext]_vars

\* the call has returned because no face was left after detection
NoFacesOutcome ==
    call.pc = "done" /\ call.detector_ran /\ call.faces = <<>>

AllFacesProcessed ==
    /\ call.pc = "done" /\ call.faces # <<>>
    /\ Len(call.face_embeddings) = Len(call.faces)

\* the detected faces whose embedding succeeded and matched a cached student
Matched ==
    {i \in 1..Len(call.face_embeddings) :
        /\ call.face_embeddings[i].embedding # NoEmbedding
        /\ find_best_match(cache, distance_metric, call.face_embeddings[i].embedding,
                           <<CONFIDENCE_THRESHOLD>>)[1] # None}

\* C12: when generate_embedding fails for a detected face, only that face is
\* dropped: every other face whose embedding succeeded is matched, and the
\* call ends with success = true and total_faces_detected the number of
\* detected faces.
C12_FailedEmbeddingDropsOneFace ==
    (AllFacesProcessed /\ \E i \in 1..Len(call.face_embeddings) :
                             call.face_embeddings[i].embedding = NoEmbedding)
        => /\ returned[1].success = TRUE
           /\ returned[1].total_faces_detected = <<Len(call.faces)>>
           /\ Len(returned[1].recognized_students) = Cardinality(Matched)
           /\ \A i \in Matched :
                 \E k \in 1..Len(returned[1].recognized_students) :
                    LET r == returned[1].recognized_students[k]
                    IN  /\ r.face_region = call.faces[i].region
                        /\ r.student_id =
                              find_best_match(cache, distance_metric,
                                              call.face_embeddings[i].embedding,
                                              <<CONFIDENCE_THRESHOLD>>)[1]

C12_Witness ==
    /\ AllFacesProcessed
    /\ Len(call.faces) = 2
    /\ call.face_embeddings[1].embedding = NoEmbedding
    /\ Matched = {2}
    /\ Len(returned[1].recognized_students) = 1

\* C13: a call with save_results = false leaves the ledger of every session
\* as it was; a call with save_results = true that gets to its results
\* appends exactly one entry, the returned result, to the ledger of its
\* session (the files being readable and writable).
C13_SaveResultsFlag ==
    call.pc = "done" =>
        /\ ~ call.save_results => results_file = call.ledger_before
        /\ (call.save_results /\ call.persist = "saved")
              => results_file =
                    [call.ledger_before EXCEPT
                        ![call.session_id] = JsonFile(Append(@.list, returned[1]))]

C13_Witness ==
    /\ call.pc = "done" /\ call.save_results /\ call.persist = "saved"
    /\ call.n = 2
    /\ Len(results_file[call.session_id].list) = 2
    /\ results_file[call.session_id].list[2] = returned[1]

\* the results of the logged calls of session sid that were written
RECURSIVE WrittenResults(_, _)
WrittenResults(log, sid) ==
    IF log = <<>> THEN <<>>
    ELSE LET e == log[Len(log)]
             before == WrittenResults(SubSeq(log, 1, Len(log) - 1), sid)
         IN  IF e.session_id = sid /\ e.persist = "saved" THEN Append(before, e.result)
             ELSE before

NoPersistFailure == \A i \in 1..Len(call.log) : call.log[i].persist # "failed"

\* C14: a call given a session id returns that id, a call given none returns
\* an id no earlier call had; after k sequential calls given one session id,
\* each with save_results = true and results to save, reading the session
\* returns exactly those k results in call order.
C14_SessionIds ==
    /\ call.pc = "done" =>
          /\ returned[1].session_id = call.session_id
          /\ call.given # None => call.session_id = call.given
          /\ call.given = None =>
                /\ call.session_id \notin SuppliedSessions
                /\ \A i \in 1..(Len(call.log) - 1) :
                      call.log[i].session_id # call.session_id
    /\ (call.pc \in {"idle", "done"} /\ NoPersistFailure) =>
          \A sid \in AllSessions :
             /\ get_session_results(sid).list = WrittenResults(call.log, sid)
             /\ get_session_results(sid).none <=> WrittenResults(call.log, sid) = <<>>

C14_Witness ==
    /\ call.pc = "done" /\ NoPersistFailure
    /\ Len(call.log) = 2
    /\ \A i \in 1..2 : call.log[i].given = "sA" /\ call.log[i].persist = "saved"
    /\ call.log[1].result # call.log[2].result
    /\ get_session_results("sA").list = <<call.log[1].result, call.log[2].result>>

IsPrefix(a, b) == Len(a) <= Len(b) /\ SubSeq(b, 1, Len(a)) = a

\* C15: the session ledger is append-only: once a read of a session returns a
\* list, every later read of the session returns a list with that list as a
\* prefix, whatever the appends and their interleaving.
C15_AppendOnly ==
    [][\A sid \in Sessions :
          ~ get_session_results(sid).none
             => /\ ~ (get_session_results(sid).none)'
                /\ IsPrefix(get_session_results(sid).list, (get_session_results(sid).list)')]_vars

-----------------------------------------------------------------------------
(* EmbeddingCache with one call at a time.  Each call is a function of the   *)
(* store (the two dicts and the two kinds of file) and of what the file      *)
(* system does; frames is the list of the calls made so far.                 *)

TheStore == [cache |-> cache, metadata |-> metadata,
             npy_files |-> npy_files, json_files |-> json_files]

\* what the file system does to a set_embedding call
SetOutcomes == {"ok", "npy_raises", "json_raises"}

\* what the file system does to a delete_embedding call
DeleteOutcomes == {"ok", "unlink_npy_raises", "unlink_json_raises"}

\* mutant: the files are written first, the dicts after
set_embedding_DiskFirst(s, student_id, embedding, meta, save_to_disk, io) ==
    IF ~ ValidShape(embedding) THEN [store |-> s, ok |-> FALSE]
    ELSE IF save_to_disk /\ io = "npy_raises" THEN [store |-> s, ok |-> FALSE]
    ELSE IF save_to_disk /\ io = "json_raises"
    THEN [store |-> [s EXCEPT !.npy_files = Assign(@, student_id, Flatten(embedding))],
          ok |-> FALSE]
    ELSE [store |-> [cache |-> Put(s.cache, student_id, Flatten(embedding)),
                     metadata |-> Assign(s.metadata, student_id, meta),
                     npy_files |-> IF save_to_disk
                                   THEN Assign(s.npy_files, student_id, Flatten(embedding))
                                   ELSE s.npy_files,
                     json_files |-> IF save_to_disk
                                    THEN Assign(s.json_files, student_id, meta)
                                    ELSE s.json_files],
          ok |-> TRUE]

\* lines 107-148
set_embedding(s, student_id, embedding, meta, save_to_disk, io) ==
    IF ~ ValidShape(embedding) THEN [store |-> s, ok |-> FALSE]
    ELSE LET e == Flatten(embedding)
             in_memory == [s EXCEPT !.cache = Put(@, student_id, e),
                                    !.metadata = Assign(@, student_id, meta)]
             with_npy == [in_memory EXCEPT !.npy_files = Assign(@, student_id, e)]
         IN  IF ~ save_to_disk THEN [store |-> in_memory, ok |-> TRUE]
             ELSE IF io = "npy_raises" THEN [store |-> in_memory, ok |-> FALSE]
             ELSE IF io = "json_raises" THEN [store |-> with_npy, ok |-> FALSE]
             ELSE [store |-> [with_npy EXCEPT !.json_files = Assign(@, student_id, meta)],
                   ok |-> TRUE]

\* line 86
get_embedding(s, student_id) ==
    IF Has(s.cache, student_id) THEN Get(s.cache, student_id) ELSE Array(<<>>)

\* mutant: a student_id the cache does not hold is an error
delete_embedding_Strict(s, student_id, delete_from_disk, io) ==
    IF ~ Has(s.cache, student_id) THEN [store |-> s, ok |-> FALSE]
    ELSE [store |-> [cache |-> Del(s.cache, student_id),
                     metadata |-> Remove(s.metadata, student_id),
                     npy_files |-> IF delete_from_disk THEN Remove(s.npy_files, student_id)
                                   ELSE s.npy_files,
                     json_files |-> IF delete_from_disk THEN Remove(s.json_files, student_id)
                                    ELSE s.json_files],
          ok |-> TRUE]

\* lines 341-364
delete_embedding(s, student_id, delete_from_disk, io) ==
    LET in_memory ==
            [s EXCEPT !.cache = IF Has(@, student_id) THEN Del(@, student_id) ELSE @,
                      !.metadata = IF student_id \in DOMAIN @ THEN Remove(@, student_id) ELSE @]
        without_npy == [in_memory EXCEPT !.npy_files = Remove(@, student_id)]
    IN  IF ~ delete_from_disk THEN [store |-> in_memory, ok |-> TRUE]
        ELSE IF student_id \in DOMAIN s.npy_files /\ io = "unlink_npy_raises"
        THEN [store |-> in_memory, ok |-> FALSE]
        ELSE IF student_id \in DOMAIN s.json_files /\ io = "unlink_json_raises"
        THEN [store |-> without_npy, ok |-> FALSE]
        ELSE [store |-> [without_npy EXCEPT !.json_files = Remove(@, student_id)],
              ok |-> TRUE]

\* mutant: the files of what is cleared are removed as well
clear_cache_Unlinks(s, student_id) ==
    IF student_id # None
    THEN IF Has(s.cache, student_id)
         THEN [s EXCEPT !.cache = Del(@, student_id),
                        !.metadata = IF student_id \in DOMAIN @ THEN Remove(@, student_id)
                                     ELSE @,
                        !.npy_files = IF student_id \in DOMAIN @ THEN Remove(@, student_id)
                                      ELSE @,
                        !.json_files = IF student_id \in DOMAIN @ THEN Remove(@, student_id)
                                       ELSE @]
         ELSE s
    ELSE [s EXCEPT !.cache = <<>>, !.metadata = <<>>, !.npy_files = <<>>, !.json_files = <<>>]

\* lines 319-328
clear_cache(s, student_id) ==
    IF student_id # None
    THEN IF Has(s.cache, student_id)
         THEN [s EXCEPT !.cache = Del(@, student_id),
                        !.metadata = IF student_id \in DOMAIN @ THEN Remove(@, student_id)
                                     ELSE @]
         ELSE s
    ELSE [s EXCEPT !.cache = <<>>, !.metadata = <<>>]

\* mutant: nothing is preloaded
load_all_embeddings_NoPreload(npy, json, embedding_files) ==
    [cache |-> <<>>, metadata |-> <<>>, npy_files |-> npy, json_files |-> json]

\* a .npy file np.load raises on, a .json file json.load raises on
UnreadableNpy == [shape |-> <<>>, data |-> <<>>]
UnreadableJson == Meta("unreadable", 0)

\* lines 43-74: a new EmbeddingCache over the folder, the .npy files taken in
\* the order glob gives them; np.load takes an array of any shape.  A file
\* np.load raises on is passed over at lines 68-69; so is a .json file
\* json.load raises on, after line 59 has stored the vector.
load_all_embeddings(npy, json, embedding_files) ==
    LET loaded == SelectSeq(embedding_files, LAMBDA f : npy[f] # UnreadableNpy)
    IN  [cache |-> [i \in 1..Len(loaded) |-> [key |-> loaded[i], value |-> npy[loaded[i]]]],
         metadata |-> [k \in {f \in DOMAIN npy \cap DOMAIN json :
                                 npy[f] # UnreadableNpy /\ json[f] # UnreadableJson}
                          |-> json[k]],
         npy_files |-> npy, json_files |-> json]

\* the orders in which glob may list the .npy files
GlobOrders(npy) ==
    {o \in [1..Cardinality(DOMAIN npy) -> DOMAIN npy] :
        \A i, j \in DOMAIN o : o[i] = o[j] => i = j}

SeqOnly == UNCHANGED <<distance_metric, matchVars, rateVars, ledgerVars, recogVars>>

Becomes(s) ==
    /\ cache' = s.cache /\ metadata' = s.metadata
    /\ npy_files' = s.npy_files /\ json_files' = s.json_files

CallMade(op, student_id, embedding, to_disk, io, ok, after) ==
    [op |-> op, student_id |-> student_id, embedding |-> embedding, to_disk |-> to_disk,
     io |-> io, ok |-> ok, before |-> TheStore, after |-> after]

SeqSet(student_id, embedding, save_to_disk, io) ==
    /\ Len(frames) < MaxCalls
    /\ ~ save_to_disk => io = "ok"
    /\ LET r == set_embedding(TheStore, student_id, embedding,
                              Meta("t1", Len(frames) + 1), save_to_disk, io)
       IN  /\ Becomes(r.store)
           /\ frames' = Append(frames, CallMade("set_embedding", student_id, embedding,
                                                save_to_disk, io, r.ok, r.store))
    /\ SeqOnly

SeqDelete(student_id, delete_from_disk, io) ==
    /\ Len(frames) < MaxCalls
    /\ ~ delete_from_disk => io = "ok"
    /\ LET r == delete_embedding(TheStore, student_id, delete_from_disk, io)
       IN  /\ Becomes(r.store)
           /\ frames' = Append(frames, CallMade("delete_embedding", student_id, Array(<<>>),
                                                delete_from_disk, io, r.ok, r.store))
    /\ SeqOnly

SeqClear(student_id) ==
    /\ Len(frames) < MaxCalls
    /\ LET after == clear_cache(TheStore, student_id)
       IN  /\ Becomes(after)
           /\ frames' = Append(frames, CallMade("clear_cache", student_id, Array(<<>>),
                                                FALSE, "ok", TRUE, after))
    /\ SeqOnly

\* the service is started anew: EmbeddingCache.__init__ with preload
SeqRestart(embedding_files) ==
    /\ Len(frames) < MaxCalls
    /\ embedding_files \in GlobOrders(npy_files)
    /\ LET after == load_all_embeddings(npy_files, json_files, embedding_files)
       IN  /\ Becomes(after)
           /\ frames' = Append(frames, CallMade("load_all", None, Array(<<>>),
                                                FALSE, "ok", TRUE, after))
    /\ SeqOnly

\* the arrays set_embedding is called with: of the shape (2,), (1, 2), (3,)
SetVecs ==
    {Array(<<-3, -4>>), [shape |-> <<1, EMBEDDING_DIM>>, data |-> <<4, 3>>],
     Array(<<1, 2, 3>>)}

\* the arrays the .npy files of the folder hold when the service starts
FolderVecs == {Array(<<3, 4>>), Array(<<1, 2, 3>>), UnreadableNpy}

\* the metadata the .json files of the folder hold when the service starts
FolderMetas == {Meta("disk", 0), UnreadableJson}

Folders ==
    UNION {[ids -> FolderVecs] : ids \in SUBSET StoreIdentities}

SeqInit ==
    /\ \E npy \in Folders : \E json \in [DOMAIN npy -> FolderMetas] : \E o \in GlobOrders(npy) :
          LET s == load_all_embeddings(npy, json, o)
          IN  /\ cache = s.cache /\ metadata = s.metadata
              /\ npy_files = s.npy_files /\ json_files = s.json_files
    /\ distance_metric = "cosine"
    /\ frames = <<>>
    /\ MatchQuiet /\ RateQuiet /\ LedgerQuiet /\ RecogQuiet

SeqNext ==
    \/ \E sid \in StoreIdentities, e \in SetVecs, b \in BOOLEAN, io \in SetOutcomes :
          SeqSet(sid, e, b, io)
    \/ \E sid \in StoreIdentities, b \in BOOLEAN, io \in DeleteOutcomes : SeqDelete(sid, b, io)
    \/ \E sid \in StoreIdentities \cup {None} : SeqClear(sid)
    \/ \E o \in UNION {GlobOrders(npy) : npy \in Folders} : SeqRestart(o)

SpecStoreSeq == SeqInit /\ [][SeqNext]_vars

LastCall == frames[Len(frames)]

\* the number of elements of the array differs from the dimensionality
Mismatched(embedding) == Len(embedding.data) # EMBEDDING_DIM

\* C16: set_embedding with a vector whose shape does not match the
\* dimensionality returns failure and leaves the mapping, the metadata and
\* the durable records as they were before the call.
C16_MismatchRejected ==
    \A i \in 1..Len(frames) :
        (frames[i].op = "set_embedding" /\ Mismatched(frames[i].embedding))
            => ~ frames[i].ok /\ frames[i].after = frames[i].before

C16_Witness ==
    /\ frames # <<>>
    /\ LastCall.op = "set_embedding" /\ Mismatched(LastCall.embedding)
    /\ LastCall.to_disk /\ ~ LastCall.ok
    /\ TheStore = LastCall.before /\ Used(cache) > 0

\* C17: in every reachable state of the store, after any sequence of
\* load_all, set, delete and clear, all vectors of the in-memory mapping have
\* the configured dimensionality; no operation, load_all included, admits a
\* vector of another shape.
C17_OneDimensionality ==
    \A i \in 1..Len(cache) :
        cache[i].key # DummyKey => cache[i].value.shape = <<EMBEDDING_DIM>>

\* a set_embedding call of a valid vector whose write to the folder failed
FailedToPersist(c) ==
    /\ c.op = "set_embedding" /\ ValidShape(c.embedding)
    /\ c.to_disk /\ c.io # "ok"

\* C18: when the durable write fails during set_embedding of a valid vector
\* with save_to_disk, the call returns False, and the in-memory mapping holds
\* the new vector for the identity all the same: get_embedding returns it and
\* find_best_match matches it.
C18_FailedWriteKeepsMemory ==
    \A i \in 1..Len(frames) :
        FailedToPersist(frames[i])
            => LET c == frames[i]
                   m == find_best_match(c.after.cache, distance_metric,
                                        Flatten(c.embedding), <<>>)
               IN  /\ ~ c.ok
                   /\ get_embedding(c.after, c.student_id) = Flatten(c.embedding)
                   /\ m[1] # None /\ m[2] = 0
                   /\ get_embedding(c.after, m[1]) = Flatten(c.embedding)

C18_Witness ==
    /\ frames # <<>> /\ FailedToPersist(LastCall)
    /\ LastCall.io = "npy_raises"
    /\ get_embedding(LastCall.before, LastCall.student_id) = Array(<<3, 4>>)
    /\ get_embedding(TheStore, LastCall.student_id) = Array(<<-3, -4>>)
    /\ npy_files[LastCall.student_id] = Array(<<3, 4>>)

\* C19: when the read or the write of results.json fails while a recognition
\* call saves its results, the call does not crash and its caller is told:
\* what it returns is not the success result of a call whose results were
\* written.
C19_PersistFailureReported ==
    (call.pc = "done" /\ call.persist = "failed")
        => /\ returned # <<>>
           /\ ~ (returned[1].success /\ returned[1].error = <<>>)

\* neither the dicts nor the folder hold anything for student_id
NotStored(s, student_id) ==
    /\ ~ Has(s.cache, student_id) /\ student_id \notin DOMAIN s.metadata
    /\ student_id \notin DOMAIN s.npy_files /\ student_id \notin DOMAIN s.json_files

\* C20: delete_embedding is idempotent: deleting an identity that is not
\* stored returns success and changes nothing, and two deletions of one
\* identity in a row both return success, the state after the second being
\* the state after the first (the files being removable).
C20_DeleteIdempotent ==
    /\ \A i \in 1..Len(frames) :
          (frames[i].op = "delete_embedding" /\ NotStored(frames[i].before, frames[i].student_id))
              => frames[i].ok /\ frames[i].after = frames[i].before
    /\ \A i \in 1..(Len(frames) - 1) :
          ( /\ frames[i].op = "delete_embedding" /\ frames[i + 1].op = "delete_embedding"
            /\ frames[i].student_id = frames[i + 1].student_id
            /\ frames[i].to_disk = frames[i + 1].to_disk
            /\ frames[i].io = "ok" /\ frames[i + 1].io = "ok" )
              => /\ frames[i].ok /\ frames[i + 1].ok
                 /\ frames[i + 1].after = frames[i].after

C20_Witness ==
    /\ Len(frames) = 2
    /\ \A i \in 1..2 : /\ frames[i].op = "delete_embedding" /\ frames[i].student_id = "S1"
                        /\ frames[i].to_disk /\ frames[i].ok
    /\ Has(frames[1].before.cache, "S1") /\ "S1" \in DOMAIN frames[1].before.npy_files
    /\ NotStored(TheStore, "S1") /\ Has(cache, "S2")

\* C21: a successful set_embedding(identity, v, metadata) with save_to_disk,
\* followed by a reload of the store from the folder into a fresh mapping,
\* gives get_embedding(identity) equal to v (v as one-dimensional array).
C21_RoundTrip ==
    \A i \in 1..(Len(frames) - 1) :
        ( /\ frames[i].op = "set_embedding" /\ frames[i].to_disk /\ frames[i].ok
          /\ frames[i + 1].op = "load_all" )
            => /\ get_embedding(frames[i + 1].after, frames[i].student_id)
                     = Flatten(frames[i].embedding)
               /\ Len(frames[i].embedding.shape) = 1
                     => get_embedding(frames[i + 1].after, frames[i].student_id)
                           = frames[i].embedding

C21_Witness ==
    /\ Len(frames) = 2
    /\ frames[1].op = "set_embedding" /\ frames[1].to_disk /\ frames[1].ok
    /\ frames[1].embedding = Array(<<-3, -4>>)
    /\ get_embedding(frames[1].before, frames[1].student_id) = Array(<<3, 4>>)
    /\ frames[2].op = "load_all"
    /\ get_embedding(TheStore, frames[1].student_id) = Array(<<-3, -4>>)

-----------------------------------------------------------------------------
(* More about compare_embeddings and find_best_match, under SpecMatch *)

\* C22: compare_embeddings with a metric name other than cosine, euclidean
\* and euclidean_l2 returns +infinity, so find_best_match under such a metric
\* never reports an identity.
C22_UnknownMetricFailsClosed ==
    distance_metric \notin Metrics
        => /\ \A v \in Vecs : compare_embeddings(distance_metric, query, v) = Inf
           /\ Called => match[1] = None /\ match[2] = Inf

C22_Witness ==
    /\ Called /\ distance_metric = "manhattan"
    /\ Used(cache) = 2 /\ cache[2].value = query
    /\ query = Array(<<3, 4>>) /\ threshold = <<150>>
    /\ match = <<None, Inf, 0>>

IsZero(v) == \A i \in 1..Len(v.data) : v.data[i] = 0

\* C23: under the cosine metric compare_embeddings returns +infinity whenever
\* either vector is the zero vector (never not-a-number), so a zero query or
\* a zero cached vector is never matched.
C23_ZeroVectorInfinite ==
    distance_metric = "cosine"
        => /\ \A v \in Vecs :
                 (IsZero(query) \/ IsZero(v))
                     => compare_embeddings(distance_metric, query, v) = Inf
           /\ (Called /\ match[1] # None)
                 => ~ IsZero(query) /\ ~ IsZero(Get(cache, match[1]))

-----------------------------------------------------------------------------
(* EmbeddingCache.batch_find_matches: query holds the list of queries, match *)
(* the list returned                                                         *)

\* mutant: the queries without a match leave nothing in the list
RECURSIVE batch_find_matches_OnlyMatches(_, _, _, _)
batch_find_matches_OnlyMatches(d, metric, query_embeddings, th) ==
    IF query_embeddings = <<>> THEN <<>>
    ELSE LET m == find_best_match(d, metric, Head(query_embeddings), th)
             rest == batch_find_matches_OnlyMatches(d, metric, Tail(query_embeddings), th)
         IN  IF m[1] # None THEN <<m>> \o rest ELSE rest

\* lines 290-295
RECURSIVE batch_find_matches(_, _, _, _)
batch_find_matches(d, metric, query_embeddings, th) ==
    IF query_embeddings = <<>> THEN <<>>
    ELSE <<find_best_match(d, metric, Head(query_embeddings), th)>>
            \o batch_find_matches(d, metric, Tail(query_embeddings), th)

BatchVecs == {Array(<<0, 0>>), Array(<<3, 4>>), Array(<<4, 3>>)}

BatchThresholdArgs == {<<>>, <<4>>}

NoBatch == <<"not called">>

BatchInit ==
    /\ cache \in DictsUpTo(MaxCache)
    /\ distance_metric \in AnyMetric
    /\ query \in UNION {[1..n -> BatchVecs] : n \in 0..MaxBatch}
    /\ threshold \in BatchThresholdArgs
    /\ match = NoBatch
    /\ StoreQuiet /\ RateQuiet /\ LedgerQuiet /\ RecogQuiet

BatchFindMatchesCall ==
    /\ match = NoBatch
    /\ match' = batch_find_matches(cache, distance_metric, query, threshold)
    /\ UNCHANGED <<cacheVars, query, threshold, rateVars, ledgerVars, recogVars>>

BatchNext == BatchFindMatchesCall

SpecBatch == BatchInit /\ [][BatchNext]_vars

\* C24: batch_find_matches returns a list as long as the list of queries,
\* whose i-th element is what find_best_match gives for the i-th query alone
\* with the same threshold and cache.
C24_BatchIsPerQuery ==
    match # NoBatch
        => /\ Len(match) = Len(query)
           /\ \A i \in 1..Len(query) :
                 match[i] = find_best_match(cache, distance_metric, query[i], threshold)

C24_Witness ==
    /\ match # NoBatch /\ Len(query) = 2 /\ Len(match) = 2
    /\ match[1][1] = None /\ match[2][1] # None
    /\ Used(cache) = 2

-----------------------------------------------------------------------------
(* More about the store with one call at a time, under SpecStoreSeq *)

JustLoaded == frames = <<>> \/ LastCall.op = "load_all"

\* the record of student_id in the folder cannot be read: its vector, or its
\* metadata
Malformed(student_id) ==
    \/ npy_files[student_id] = UnreadableNpy
    \/ student_id \in DOMAIN json_files /\ json_files[student_id] = UnreadableJson

\* C25: load_all is not aborted by a malformed record: afterwards every
\* well-formed record is in the mapping, and an identity whose record is
\* malformed (unreadable vector or unreadable metadata) is absent from it.
C25_MalformedSkipped ==
    JustLoaded =>
        \A student_id \in DOMAIN npy_files :
            IF Malformed(student_id)
            THEN ~ Has(cache, student_id)
            ELSE Has(cache, student_id) /\ Get(cache, student_id) = npy_files[student_id]

-----------------------------------------------------------------------------
(* More about recognize_faces, under SpecRecog *)

\* the steps of the call under way; each is taken once the external call it
\* waits for has returned
RecogStep ==
    \/ \E raises \in BOOLEAN : RecognizePreprocess(raises)
    \/ \E raised \in BOOLEAN, face_objs \in DetectorOutputs : RecognizeDetect(raised, face_objs)
    \/ \E crop_raises \in BOOLEAN, e \in StoreVecs \cup {NoEmbedding} :
          RecognizeFace(crop_raises, e)
    \/ RecognizeMatch
    \/ \E io \in PersistOutcomes : RecognizePersist(io)

SpecRecogFair == RecogInit /\ [][RecogNext]_vars /\ WF_vars(RecogStep)

UnderWay == call.pc \in {"preprocess", "detect", "face", "match", "persist"}

\* the dict returned is of one of the three kinds
OneOutcome ==
    /\ Len(returned) = 1
    /\ \/ returned[1] = NoFacesResult(call.session_id)
       \/ returned[1].success /\ returned[1].error = <<>>
       \/ ~ returned[1].success /\ returned[1].error # <<>>

\* C26: every recognize_faces call, its external calls returning, comes to
\* exactly one terminal outcome (no faces, success, or failure with success =
\* false), passes the rate limiter before the detector is called, and lets no
\* exception through to its caller.
C26_CallTerminates ==
    /\ [](call.pc \in {"idle", "done"} \/ UnderWay)
    /\ [](call.pc = "done" => OneOutcome)
    /\ []((call.pc \in {"detect", "face", "match", "persist"} /\ fps_limit > 0)
            => /\ last_recognition_time = now
               /\ call.n > 1 => now >= StartTime + min_interval)
    /\ [](UnderWay => returned = <<>>)
    /\ (UnderWay ~> call.pc = "done")

C26_Witness ==
    /\ call.pc = "done" /\ call.n = 2 /\ fps_limit > 0
    /\ Len(call.faces) = 2 /\ returned[1].success
    /\ call.log[1].result = NoFacesResult("sA")

-----------------------------------------------------------------------------
(* More about the store with the request threads running together *)

NoStoreOperation == \A t \in Threads : ~ Running(frames[t])

\* C27: whenever no embedding-store operation is in progress, every identity
\* with a metadata entry has a vector in the in-memory mapping, interleaved
\* set_embedding and delete_embedding of one identity included.
C27_MetadataWithinCache ==
    NoStoreOperation => DOMAIN metadata \subseteq Keys(cache)

-----------------------------------------------------------------------------
(* recognize_faces and the embedding store *)

\* C28: a recognize_faces call, whatever its outcome, leaves the embedding
\* store as it was: no step of the call changes the in-memory mapping, the
\* metadata or the .npy and .json records, so they are the same after the
\* call as before it (embeddings of query faces are not stored).
C28_StoreUnchanged ==
    [][UNCHANGED <<cache, metadata, npy_files, json_files>>]_vars

\* two calls have returned, the first one a failure and the second one with a
\* recognized student, the embedding of a second face being in the call's
\* list and not in the cache
C28_Witness ==
    /\ call.pc = "done" /\ call.n = 2
    /\ ~ call.log[1].result.success
    /\ returned[1].success /\ returned[1].recognized_students # <<>>
    /\ Used(cache) = 2 /\ Keys(cache) = DOMAIN npy_files
    /\ Len(call.face_embeddings) = 2

\* the call has returned with a detected face left that was not cropped:
\* crop_face_region raised for the face after the embedded ones
CropFailed ==
    /\ call.pc = "done"
    /\ Len(call.face_embeddings) < Len(call.faces)

\* C29: when crop_face_region fails for one detected face, the call ends in
\* failure: success is false, the recognized list is empty and no ledger
\* gets an entry, whatever the faces cropped before would have matched.
C29_CropFailureFailsCall ==
    CropFailed
        => /\ Len(returned) = 1
           /\ ~ returned[1].success
           /\ returned[1].error # <<>>
           /\ returned[1].recognized_students = <<>>
           /\ results_file = call.ledger_before

\* the crop of the second face failed after the first face, which matches a
\* cached identity, was embedded, in a call that saves its results
C29_Witness ==
    /\ CropFailed /\ call.save_results
    /\ Len(call.faces) = 2 /\ Len(call.face_embeddings) = 1
    /\ find_best_match(cache, distance_metric, call.face_embeddings[1].embedding,
                       <<CONFIDENCE_THRESHOLD>>)[1] # None

-----------------------------------------------------------------------------
(* clear_cache and the files *)

\* the identities with a .npy file np.load can read
Persistent(npy) == {k \in DOMAIN npy : npy[k] # UnreadableNpy}

\* C30: clear_cache changes the two dicts only.  clear_cache(identity)
\* removes that identity and leaves the vector and the metadata of every
\* other identity as they were, clear_cache(None) empties the mapping, the
\* .npy and .json files stay as they were in both cases, and when the
\* embeddings are loaded next, every cleared identity that has a readable
\* .npy file is in the mapping again, with the vector of the file.
C30_ClearIsInMemoryOnly ==
    \A i \in 1..Len(frames) :
        frames[i].op = "clear_cache"
            => LET b == frames[i].before
                   a == frames[i].after
                   sid == frames[i].student_id
               IN  /\ a.npy_files = b.npy_files /\ a.json_files = b.json_files
                   /\ sid = None => Keys(a.cache) = {} /\ DOMAIN a.metadata = {}
                   /\ sid # None
                         => /\ Keys(a.cache) = Keys(b.cache) \ {sid}
                            /\ \A k \in Keys(a.cache) : Get(a.cache, k) = Get(b.cache, k)
                            /\ \A k \in StoreIdentities \ {sid} :
                                  /\ k \in DOMAIN a.metadata <=> k \in DOMAIN b.metadata
                                  /\ k \in DOMAIN a.metadata => a.metadata[k] = b.metadata[k]
                   /\ (i < Len(frames) /\ frames[i + 1].op = "load_all")
                         => \A k \in (Keys(b.cache) \ Keys(a.cache)) \cap Persistent(b.npy_files) :
                               /\ Has(frames[i + 1].after.cache, k)
                               /\ Get(frames[i + 1].after.cache, k) = b.npy_files[k]

\* clear_cache of one of two loaded identities, then the embeddings loaded
\* again: the other identity stayed, the cleared one is back
C30_Witness ==
    /\ Len(frames) = 2
    /\ frames[1].op = "clear_cache" /\ frames[1].student_id # None
    /\ Used(frames[1].before.cache) = 2 /\ Used(frames[1].after.cache) = 1
    /\ frames[2].op = "load_all"
    /\ Has(cache, frames[1].student_id) /\ Used(cache) = 2

====
